---- MODULE Spec2Model ----
(***************************************************************************)
(* Walletwork pre-transaction firewall: the /analyze handler of            *)
(* backend/main.py, the fraud simulator of backend/simulation.py and the   *)
(* risk aggregator of backend/risk_engine.py.                              *)
(*                                                                         *)
(* Conventions:                                                            *)
(*  - a Python str that the code inspects character by character (the      *)
(*    wallet and contract addresses) is a sequence of one-character        *)
(*    strings; every other str is a TLA+ string;                           *)
(*  - a probability is kept as an integer number of hundredths (0.85 is    *)
(*    85); every probability the code produces or compares against is a    *)
(*    whole number of hundredths;                                          *)
(*  - Python's None / True / False of the tri-state contract_verified are  *)
(*    the strings "None" / "True" / "False";                               *)
(*  - a dict is a function on its keys, the empty dict is <<>>, and        *)
(*    d.get(k, default) is Get(d, k, default).                             *)
(***************************************************************************)
EXTENDS Integers, Sequences, FiniteSets, TLC

VARIABLES
    pc,                  \* position of the /analyze handler
    clients,             \* how many of the four service clients were built at import
    request,             \* the validated AnalyzeRequest
    pending,             \* tasks of the asyncio.gather that have not completed
    raised,              \* operations that ended in an exception
    returned,            \* what each operation that returned normally returned
    tx_count,            \* local tx_count
    contract_code,       \* local contract_code
    recent_transfers,    \* local recent_transfers
    locals,              \* names of the locals bound so far
    is_contract,         \* local is_contract
    contract_verified,   \* local contract_verified
    verify_calls,        \* number of check_contract_verified calls issued
    onchain_data,        \* local onchain_data
    transfers_arg,       \* transfers handed to the graph engine
    graph_signals,       \* local graph_signals
    is_scam_linked,      \* local is_scam_linked
    is_unverified,       \* local is_unverified
    contract_risk_score, \* local contract_risk_score
    forecast_signals,    \* local forecast_signals
    result               \* the response body

vars == <<pc, clients, request, pending, raised, returned, tx_count, contract_code,
          recent_transfers, locals, is_contract, contract_verified,
          verify_calls, onchain_data, transfers_arg, graph_signals,
          is_scam_linked, is_unverified, contract_risk_score,
          forecast_signals, result>>

-----------------------------------------------------------------------------
(* Bounds of the model *)

\* Transaction counts a fetch may return are 0..MaxTxCount.
MaxTxCount == 10

\* The largest hop distance handed to the aggregator.
MaxHop == 4

\* The largest contract_risk_score handed to the simulator on its own.
MaxContractRiskScore == 100

-----------------------------------------------------------------------------
(* Python helpers *)

Min(a, b) == IF a <= b THEN a ELSE b

\* dict.get(k, default)
Get(d, k, default) == IF k \in DOMAIN d THEN d[k] ELSE default

UpperCase == <<"A", "B", "C", "D", "E", "F", "H", "I", "K", "M", "P", "S", "X">>
LowerCase == <<"a", "b", "c", "d", "e", "f", "h", "i", "k", "m", "p", "s", "x">>

LowerChar(c) ==
    IF \E i \in 1..Len(UpperCase) : UpperCase[i] = c
    THEN LowerCase[CHOOSE i \in 1..Len(UpperCase) : UpperCase[i] = c]
    ELSE c

\* str.lower()
Lower(s) == [i \in 1..Len(s) |-> LowerChar(s[i])]

\* str.startswith(prefix)
StartsWith(s, prefix) ==
    /\ Len(s) >= Len(prefix)
    /\ SubSeq(s, 1, Len(prefix)) = prefix

\* pattern in s
Contains(s, pattern) ==
    \E i \in 1..(Len(s) - Len(pattern) + 1) :
        SubSeq(s, i, i + Len(pattern) - 1) = pattern

\* int(drain_prob*100) for drain_prob = p/100: the float product falls just
\* below the integer for these p and is truncated.
TruncatedPcts == {29, 57, 58}
IntPct(p) == IF p \in TruncatedPcts THEN p - 1 ELSE p

\* Python truthiness of the tri-state: not v
PyNot(v) == v # "True"

-----------------------------------------------------------------------------
(* models.py *)

TxTypes == {"approve", "swap", "transfer", "send"}

normalize_address(v) ==
    IF Len(v) > 0 /\ StartsWith(v, <<"0", "x">>) THEN Lower(v) ELSE v

-----------------------------------------------------------------------------
(* simulation.py: FraudSimulator.simulate_risk *)

\* Mutant: the approve baseline set below the aggregator's 0.5 drain tier
simulate_risk_LowApproveBaseline(tx_type, crs, scam_linked) ==
    IF tx_type = "approve" THEN
        IF scam_linked \/ crs > 50
        THEN [drain_probability |-> 85, attack_window_blocks |-> 10]
        ELSE [drain_probability |-> 45, attack_window_blocks |-> 1000]
    ELSE IF tx_type = "swap" THEN
        IF crs > 60
        THEN [drain_probability |-> 90, attack_window_blocks |-> 1]
        ELSE [drain_probability |-> 5, attack_window_blocks |-> 0]
    ELSE IF tx_type = "transfer" THEN
        IF scam_linked
        THEN [drain_probability |-> 95, attack_window_blocks |-> 1]
        ELSE [drain_probability |-> 1, attack_window_blocks |-> 0]
    ELSE [drain_probability |-> 0, attack_window_blocks |-> 0]

\* Mutant: the escalation thresholds compared with >= instead of >
simulate_risk_NonStrict(tx_type, crs, scam_linked) ==
    IF tx_type = "approve" THEN
        IF scam_linked \/ crs >= 50
        THEN [drain_probability |-> 85, attack_window_blocks |-> 10]
        ELSE [drain_probability |-> 70, attack_window_blocks |-> 1000]
    ELSE IF tx_type = "swap" THEN
        IF crs >= 60
        THEN [drain_probability |-> 90, attack_window_blocks |-> 1]
        ELSE [drain_probability |-> 5, attack_window_blocks |-> 0]
    ELSE IF tx_type = "transfer" THEN
        IF scam_linked
        THEN [drain_probability |-> 95, attack_window_blocks |-> 1]
        ELSE [drain_probability |-> 1, attack_window_blocks |-> 0]
    ELSE [drain_probability |-> 0, attack_window_blocks |-> 0]

simulate_risk(tx_type, crs, scam_linked) ==
    IF tx_type = "approve" THEN
        IF scam_linked \/ crs > 50
        THEN [drain_probability |-> 85, attack_window_blocks |-> 10]
        ELSE [drain_probability |-> 70, attack_window_blocks |-> 1000]
    ELSE IF tx_type = "swap" THEN
        IF crs > 60
        THEN [drain_probability |-> 90, attack_window_blocks |-> 1]
        ELSE [drain_probability |-> 5, attack_window_blocks |-> 0]
    ELSE IF tx_type = "transfer" THEN
        IF scam_linked
        THEN [drain_probability |-> 95, attack_window_blocks |-> 1]
        ELSE [drain_probability |-> 1, attack_window_blocks |-> 0]
    ELSE [drain_probability |-> 0, attack_window_blocks |-> 0]

-----------------------------------------------------------------------------
(* risk_engine.py: calculate_risk *)

RISK_LEVELS ==
    << [label |-> "SAFE",      low |-> 0,  high |-> 29],
       [label |-> "CAUTION",   low |-> 30, high |-> 69],
       [label |-> "DANGEROUS", low |-> 70, high |-> 100] >>

SuspiciousPatterns ==
    { <<"d", "e", "a", "d">>, <<"b", "a", "d">>, <<"s", "c", "a", "m">>,
      <<"f", "a", "k", "e">>, <<"p", "h", "i", "s", "h">> }

NullLikePrefix == <<"0", "x", "0", "0", "0", "0", "0", "0">>

R_NewWallet    == "This is a brand new wallet with zero transaction history"
R_LowActivity  == "Very low activity wallet (fewer than 3 transactions)"
R_Unverified   == "Contract source code is NOT verified on Etherscan"
R_Verified     == "Contract is verified on Etherscan"
R_RegularWallet == "Interacting with a regular wallet (not a contract)"
R_Hop0         == "CRITICAL: This address is flagged in our scam database"
R_Hop1         == "High Risk: This wallet has directly interacted with known scammers"
R_Hop2         == "Caution: Connected to suspicious wallets (2 hops from known scammers)"
R_Hop3         == "Distant connection to suspicious activity detected (3 hops)"
R_Approve      == "ERC20 Approve detected - this grants spending permission"
R_HighDrain(p) == "High drain risk detected (" \o ToString(IntPct(p)) \o "% probability)"
R_ModerateDrain(p) == "Moderate drain risk (" \o ToString(IntPct(p)) \o "% probability)"
R_Swap         == "Token swap operation - ensure you trust the DEX contract"
R_Send         == "Standard transfer - lowest risk transaction type"
R_ContractPattern == "Suspicious keywords detected in contract address"
R_WalletPattern == "Unusual wallet address pattern (null-like prefix)"
R_AllPassed    == "All security checks passed"
R_NoRedFlags   == "No red flags detected"

\* score += n; reasons.append(r)
Add(acc, n, r) ==
    [score |-> acc.score + n, reasons |-> Append(acc.reasons, r)]

\* Mutant: the unknown count scored like a count of 0 (tx_count <= 0)
Signal1_UnknownAsZero(acc, onchain) ==
    LET n == Get(onchain, "tx_count", -1) IN
    IF n <= 0 THEN Add(acc, 30, R_NewWallet)
    ELSE IF n > 0 /\ n < 3 THEN Add(acc, 15, R_LowActivity)
    ELSE acc

\* SIGNAL 1: Fresh Wallet Detection
Signal1(acc, onchain) ==
    LET n == Get(onchain, "tx_count", -1) IN
    IF n = 0 THEN Add(acc, 30, R_NewWallet)
    ELSE IF n > 0 /\ n < 3 THEN Add(acc, 15, R_LowActivity)
    ELSE acc

\* Mutant: the verification test inverted (the penalty on verified contracts)
Signal2_InvertedCheck(acc, onchain) ==
    LET contract == Get(onchain, "is_contract", FALSE)
        verified == Get(onchain, "contract_verified", "None")
    IN  IF contract THEN
            IF verified = "True" THEN Add(acc, 35, R_Unverified)
            ELSE IF verified = "False" THEN Add(acc, 0, R_Verified)
            ELSE acc
        ELSE Add(acc, 0, R_RegularWallet)

\* SIGNAL 2: Contract Verification
Signal2(acc, onchain) ==
    LET contract == Get(onchain, "is_contract", FALSE)
        verified == Get(onchain, "contract_verified", "None")
    IN  IF contract THEN
            IF verified = "False" THEN Add(acc, 35, R_Unverified)
            ELSE IF verified = "True" THEN Add(acc, 0, R_Verified)
            ELSE acc
        ELSE Add(acc, 0, R_RegularWallet)

\* Mutant: the weights of hop 1 and hop 3 exchanged
Signal3_SwappedWeights(acc, graph) ==
    LET hop_distance == Get(graph, "wallet_scam_distance", -1) IN
    IF hop_distance = 0 THEN Add(acc, 50, R_Hop0)
    ELSE IF hop_distance = 1 THEN Add(acc, 10, R_Hop1)
    ELSE IF hop_distance = 2 THEN Add(acc, 20, R_Hop2)
    ELSE IF hop_distance = 3 THEN Add(acc, 35, R_Hop3)
    ELSE acc

\* SIGNAL 3: Graph Intelligence
Signal3(acc, graph) ==
    LET hop_distance == Get(graph, "wallet_scam_distance", -1) IN
    IF hop_distance = 0 THEN Add(acc, 50, R_Hop0)
    ELSE IF hop_distance = 1 THEN Add(acc, 35, R_Hop1)
    ELSE IF hop_distance = 2 THEN Add(acc, 20, R_Hop2)
    ELSE IF hop_distance = 3 THEN Add(acc, 10, R_Hop3)
    ELSE acc

\* Mutant: the send branch left out, as the transfer branch is
Signal4_NoSendBranch(acc, tx_type, forecast) ==
    IF tx_type = "approve" THEN
        LET a == Add(acc, 25, R_Approve)
            drain_prob == Get(forecast, "drain_probability", 0)
        IN  IF drain_prob >= 80 THEN Add(a, 25, R_HighDrain(drain_prob))
            ELSE IF drain_prob >= 50 THEN Add(a, 15, R_ModerateDrain(drain_prob))
            ELSE a
    ELSE IF tx_type = "swap" THEN Add(acc, 10, R_Swap)
    ELSE acc

\* SIGNAL 4: Transaction Type Risk
Signal4(acc, tx_type, forecast) ==
    IF tx_type = "approve" THEN
        LET a == Add(acc, 25, R_Approve)
            drain_prob == Get(forecast, "drain_probability", 0)
        IN  IF drain_prob >= 80 THEN Add(a, 25, R_HighDrain(drain_prob))
            ELSE IF drain_prob >= 50 THEN Add(a, 15, R_ModerateDrain(drain_prob))
            ELSE a
    ELSE IF tx_type = "swap" THEN Add(acc, 10, R_Swap)
    ELSE IF tx_type = "send" THEN Add(acc, 5, R_Send)
    ELSE acc

\* Mutant: the wallet-prefix test chained to the contract-pattern test with
\* elif, so that it is skipped when the contract pattern fired
Signal5_ElifPrefix(acc, wallet, contract) ==
    LET contract_lower == Lower(contract)
        wallet_lower == Lower(wallet)
    IN  IF \E pattern \in SuspiciousPatterns : Contains(contract_lower, pattern)
        THEN Add(acc, 25, R_ContractPattern)
        ELSE IF StartsWith(wallet_lower, NullLikePrefix)
        THEN Add(acc, 15, R_WalletPattern)
        ELSE acc

\* SIGNAL 5: Static Heuristics (Pattern Detection)
Signal5(acc, wallet, contract) ==
    LET contract_lower == Lower(contract)
        wallet_lower == Lower(wallet)
        a == IF \E pattern \in SuspiciousPatterns : Contains(contract_lower, pattern)
             THEN Add(acc, 25, R_ContractPattern)
             ELSE acc
    IN  IF StartsWith(wallet_lower, NullLikePrefix)
        THEN Add(a, 15, R_WalletPattern)
        ELSE a

\* Mutant: the upper bound of the CAUTION band taken inclusive at 70
RiskLabel_OffByOne(score) ==
    IF score < 30 THEN "SAFE"
    ELSE IF score <= 70 THEN "CAUTION"
    ELSE "DANGEROUS"

\* The label loop over RISK_LEVELS: the first band that holds the score,
\* "SAFE" when none does.
RiskLabel(score) ==
    IF \E i \in 1..Len(RISK_LEVELS) :
            RISK_LEVELS[i].low <= score /\ score <= RISK_LEVELS[i].high
    THEN RISK_LEVELS[CHOOSE i \in 1..Len(RISK_LEVELS) :
            /\ RISK_LEVELS[i].low <= score /\ score <= RISK_LEVELS[i].high
            /\ \A j \in 1..(i - 1) :
                ~(RISK_LEVELS[j].low <= score /\ score <= RISK_LEVELS[j].high)].label
    ELSE "SAFE"

\* Mutant: the canned reasons appended whatever the list holds
FinalReasons_AlwaysCanned(reasons) ==
    reasons \o <<R_AllPassed, R_NoRedFlags>>

\* The canned reasons of a list no rule has written to
FinalReasons(reasons) ==
    IF reasons = <<>> THEN <<R_AllPassed, R_NoRedFlags>> ELSE reasons

\* score = 0, reasons = []
NoSignals == [score |-> 0, reasons |-> <<>>]

\* Mutant: the graph signal evaluated before the verification signal
RuleChain_GraphFirst(wallet, contract, tx_type, onchain, graph, forecast) ==
    Signal5(Signal4(Signal2(Signal3(Signal1(NoSignals, onchain), graph),
                            onchain),
                    tx_type, forecast),
            wallet, contract)

\* The five signals in the order of the code
RuleChain(wallet, contract, tx_type, onchain, graph, forecast) ==
    Signal5(Signal4(Signal3(Signal2(Signal1(NoSignals, onchain), onchain),
                            graph),
                    tx_type, forecast),
            wallet, contract)

calculate_risk(wallet, contract, tx_type, onchain, graph, forecast) ==
    LET a5 == RuleChain(wallet, contract, tx_type, onchain, graph, forecast)
        score == Min(a5.score, 100)
        hop_distance == Get(graph, "wallet_scam_distance", -1)
    IN  [ risk       |-> RiskLabel(score),
          risk_score |-> score,
          score      |-> score,
          reasons    |-> FinalReasons(a5.reasons),
          signals    |->
            [ is_new_wallet |-> Get(onchain, "tx_count", -1) = 0,
              is_unverified_contract |->
                  Get(onchain, "is_contract", FALSE)
                  /\ Get(onchain, "contract_verified", "None") = "False",
              graph_hop_distance |->
                  IF hop_distance >= 0 THEN hop_distance ELSE "None",
              drain_probability |-> Get(forecast, "drain_probability", 0) ] ]

-----------------------------------------------------------------------------
(* Inputs of the model *)

\* Raw request addresses, before the validator of AnalyzeRequest.
RawWallets ==
    { <<"0", "x", "1", "2", "a", "b">>,
      <<"0", "x", "0", "0", "0", "0", "0", "0", "A", "B">> }

RawContracts ==
    { <<"0", "x", "1", "2", "3", "4">>,
      <<"0", "x", "D", "E", "A", "D", "b", "e">>,
      <<"P", "H", "I", "S", "H">> }

\* What get_tx_count returns when it returns.
TxCounts == 0..MaxTxCount

\* What get_contract_code returns when it returns: no bytecode, or some.
ContractCodes == {"0x", "0x6080"}

\* What get_recent_transfers returns when it returns.
TransferLists == { <<>>, <<[from |-> "w", to |-> "s"]>> }

\* What analyze_wallet_connections returns when it returns.
GraphResults ==
    [wallet_scam_distance : -1..MaxHop, connected_to_scam_cluster : BOOLEAN]

Tasks == {"wallet_task", "contract_code_task", "transfers_task"}

-----------------------------------------------------------------------------
(* main.py: module initialisation and analyze_transaction *)

\* The clients are built in this order inside one try block; the first
\* constructor that raises leaves it and the later names unbound.
ClientNames ==
    <<"blockchain_client", "etherscan_client", "graph_engine", "fraud_simulator">>

Bound(name) == \E i \in 1..clients : ClientNames[i] = name

Init ==
    /\ pc = "phase1"
    /\ clients \in 0..Len(ClientNames)
    /\ \E w \in RawWallets, c \in RawContracts, t \in TxTypes :
          request = [wallet |-> normalize_address(w),
                     contract |-> normalize_address(c),
                     tx_type |-> t]
    /\ pending = {}
    /\ raised = {}
    /\ returned = <<>>
    /\ tx_count = -1
    /\ contract_code = "0x"
    /\ recent_transfers = <<>>
    /\ locals = {}
    /\ is_contract = FALSE
    /\ contract_verified = "None"
    /\ verify_calls = 0
    /\ onchain_data = <<>>
    /\ transfers_arg = <<>>
    /\ graph_signals = <<>>
    /\ is_scam_linked = FALSE
    /\ is_unverified = FALSE
    /\ contract_risk_score = 0
    /\ forecast_signals = <<>>
    /\ result = <<>>

\* PHASE 1, lines 66-68: the three coroutines are created; an unbound
\* blockchain_client raises NameError into the outer except of the phase.
StartFetch ==
    /\ pc = "phase1"
    /\ IF Bound("blockchain_client")
       THEN /\ pending' = Tasks
            /\ pc' = "gather"
            /\ UNCHANGED <<raised, onchain_data>>
       ELSE /\ raised' = raised \cup {"phase1"}
            /\ onchain_data' = [tx_count |-> -1,
                                is_contract |-> FALSE,
                                contract_verified |-> "None",
                                contract_type |-> "UNKNOWN",
                                contract_age_days |-> "None"]
            /\ pc' = "phase2"
            /\ UNCHANGED pending
    /\ UNCHANGED <<clients, request, returned, tx_count, contract_code, recent_transfers,
                   locals, is_contract, contract_verified, verify_calls,
                   transfers_arg, graph_signals, is_scam_linked, is_unverified,
                   contract_risk_score, forecast_signals, result>>

\* One task of the gather completes, with a value or with an exception that
\* return_exceptions=True keeps as its result.
TxCountTask ==
    /\ pc = "gather"
    /\ "wallet_task" \in pending
    /\ pending' = pending \ {"wallet_task"}
    /\ \/ \E n \in TxCounts :
             /\ tx_count' = n
             /\ returned' = returned @@ ("wallet_task" :> n)
             /\ UNCHANGED raised
       \/ /\ raised' = raised \cup {"wallet_task"}
          /\ UNCHANGED <<tx_count, returned>>
    /\ UNCHANGED <<pc, clients, request, contract_code, recent_transfers,
                   locals, is_contract, contract_verified, verify_calls,
                   onchain_data, transfers_arg, graph_signals, is_scam_linked,
                   is_unverified, contract_risk_score, forecast_signals, result>>

ContractCodeTask ==
    /\ pc = "gather"
    /\ "contract_code_task" \in pending
    /\ pending' = pending \ {"contract_code_task"}
    /\ \/ \E code \in ContractCodes :
             /\ contract_code' = code
             /\ returned' = returned @@ ("contract_code_task" :> code)
             /\ UNCHANGED raised
       \/ /\ raised' = raised \cup {"contract_code_task"}
          /\ UNCHANGED <<contract_code, returned>>
    /\ UNCHANGED <<pc, clients, request, tx_count, recent_transfers,
                   locals, is_contract, contract_verified, verify_calls,
                   onchain_data, transfers_arg, graph_signals, is_scam_linked,
                   is_unverified, contract_risk_score, forecast_signals, result>>

TransfersTask ==
    /\ pc = "gather"
    /\ "transfers_task" \in pending
    /\ pending' = pending \ {"transfers_task"}
    /\ \/ \E ts \in TransferLists :
             /\ recent_transfers' = ts
             /\ returned' = returned @@ ("transfers_task" :> ts)
             /\ UNCHANGED raised
       \/ /\ raised' = raised \cup {"transfers_task"}
          /\ UNCHANGED <<recent_transfers, returned>>
    /\ UNCHANGED <<pc, clients, request, tx_count, contract_code,
                   locals, is_contract, contract_verified, verify_calls,
                   onchain_data, transfers_arg, graph_signals, is_scam_linked,
                   is_unverified, contract_risk_score, forecast_signals, result>>

\* Mutant: the verification lookup made for every target, contract or not
GatherReturn_AlwaysVerify ==
    /\ pc = "gather"
    /\ pending = {}
    /\ locals' = locals \cup {"tx_count", "contract_code", "recent_transfers"}
    /\ tx_count' = IF "wallet_task" \in raised THEN -1 ELSE tx_count
    /\ contract_code' = IF "contract_code_task" \in raised THEN "0x" ELSE contract_code
    /\ recent_transfers' = IF "transfers_task" \in raised THEN <<>> ELSE recent_transfers
    /\ is_contract' = (contract_code' # "0x")
    /\ contract_verified' = "None"
    /\ pc' = "verify"
    /\ UNCHANGED <<clients, request, returned, pending, raised, verify_calls, onchain_data,
                   transfers_arg, graph_signals, is_scam_linked, is_unverified,
                   contract_risk_score, forecast_signals, result>>

\* Mutant: the default for a failed bytecode fetch left out, so that the
\* exception object kept as contract_code differs from "0x"
GatherReturn_NoCodeDefault ==
    /\ pc = "gather"
    /\ pending = {}
    /\ locals' = locals \cup {"tx_count", "contract_code", "recent_transfers"}
    /\ tx_count' = IF "wallet_task" \in raised THEN -1 ELSE tx_count
    /\ contract_code' = contract_code
    /\ recent_transfers' = IF "transfers_task" \in raised THEN <<>> ELSE recent_transfers
    /\ is_contract' = ("contract_code_task" \in raised \/ contract_code' # "0x")
    /\ contract_verified' = "None"
    /\ pc' = IF is_contract' THEN "verify" ELSE "onchain"
    /\ UNCHANGED <<clients, request, returned, pending, raised, verify_calls, onchain_data,
                   transfers_arg, graph_signals, is_scam_linked, is_unverified,
                   contract_risk_score, forecast_signals, result>>

\* Lines 70-89: the gather returns once all three tasks have completed; each
\* exception is replaced by its default, then is_contract is derived.
GatherReturn ==
    /\ pc = "gather"
    /\ pending = {}
    /\ locals' = locals \cup {"tx_count", "contract_code", "recent_transfers"}
    /\ tx_count' = IF "wallet_task" \in raised THEN -1 ELSE tx_count
    /\ contract_code' = IF "contract_code_task" \in raised THEN "0x" ELSE contract_code
    /\ recent_transfers' = IF "transfers_task" \in raised THEN <<>> ELSE recent_transfers
    /\ is_contract' = (contract_code' # "0x")
    /\ contract_verified' = "None"
    /\ pc' = IF is_contract' THEN "verify" ELSE "onchain"
    /\ UNCHANGED <<clients, request, returned, pending, raised, verify_calls, onchain_data,
                   transfers_arg, graph_signals, is_scam_linked, is_unverified,
                   contract_risk_score, forecast_signals, result>>

\* Lines 92-97: the verification lookup, for contracts only; an exception
\* (an unbound etherscan_client included) leaves the status None.
CheckVerified ==
    /\ pc = "verify"
    /\ IF Bound("etherscan_client")
       THEN /\ verify_calls' = verify_calls + 1
            /\ \/ \E v \in {"True", "False"} :
                     /\ contract_verified' = v
                     /\ returned' = returned @@ ("check_contract_verified" :> v)
                     /\ UNCHANGED raised
               \/ /\ contract_verified' = "None"
                  /\ raised' = raised \cup {"check_contract_verified"}
                  /\ UNCHANGED returned
       ELSE /\ contract_verified' = "None"
            /\ raised' = raised \cup {"check_contract_verified"}
            /\ UNCHANGED <<verify_calls, returned>>
    /\ pc' = "onchain"
    /\ UNCHANGED <<clients, request, pending, tx_count, contract_code,
                   recent_transfers, locals, is_contract, onchain_data,
                   transfers_arg, graph_signals, is_scam_linked, is_unverified,
                   contract_risk_score, forecast_signals, result>>

\* Lines 99-105
BuildOnchainData ==
    /\ pc = "onchain"
    /\ onchain_data' = [tx_count |-> tx_count,
                        is_contract |-> is_contract,
                        contract_verified |-> contract_verified,
                        contract_type |-> IF is_contract THEN "SMART_CONTRACT" ELSE "EOA",
                        contract_age_days |-> "None"]
    /\ pc' = "phase2"
    /\ UNCHANGED <<clients, request, returned, pending, raised, tx_count, contract_code,
                   recent_transfers, locals, is_contract, contract_verified,
                   verify_calls, transfers_arg, graph_signals, is_scam_linked,
                   is_unverified, contract_risk_score, forecast_signals, result>>

\* PHASE 2, lines 121-129
GraphAnalysis ==
    /\ pc = "phase2"
    /\ IF Bound("graph_engine")
       THEN /\ transfers_arg' = IF "recent_transfers" \in locals
                                THEN recent_transfers ELSE <<>>
            /\ \/ \E g \in GraphResults :
                     /\ graph_signals' = g
                     /\ returned' = returned @@ ("analyze_wallet_connections" :> g)
                     /\ UNCHANGED raised
               \/ /\ graph_signals' = [wallet_scam_distance |-> -1,
                                       connected_to_scam_cluster |-> FALSE]
                  /\ raised' = raised \cup {"analyze_wallet_connections"}
                  /\ UNCHANGED returned
       ELSE /\ graph_signals' = [wallet_scam_distance |-> -1,
                                 connected_to_scam_cluster |-> FALSE]
            /\ raised' = raised \cup {"analyze_wallet_connections"}
            /\ UNCHANGED <<transfers_arg, returned>>
    /\ pc' = "phase3"
    /\ UNCHANGED <<clients, request, pending, tx_count, contract_code,
                   recent_transfers, locals, is_contract, contract_verified,
                   verify_calls, onchain_data, is_scam_linked, is_unverified,
                   contract_risk_score, forecast_signals, result>>

\* PHASE 3, lines 137-145: the simulator's inputs
DeriveRiskFactors ==
    /\ pc = "phase3"
    /\ is_scam_linked' = Get(graph_signals, "connected_to_scam_cluster", FALSE)
    /\ is_unverified' = (Get(onchain_data, "is_contract", FALSE)
                         /\ PyNot(Get(onchain_data, "contract_verified", "False")))
    /\ contract_risk_score' =
          (IF is_unverified' THEN 60 ELSE 0) + (IF is_scam_linked' THEN 30 ELSE 0)
    /\ pc' = "simulate"
    /\ UNCHANGED <<clients, request, returned, pending, raised, tx_count, contract_code,
                   recent_transfers, locals, is_contract, contract_verified,
                   verify_calls, onchain_data, transfers_arg, graph_signals,
                   forecast_signals, result>>

\* PHASE 3, lines 147-154: the simulator call and its except branch
Simulate ==
    /\ pc = "simulate"
    /\ IF Bound("fraud_simulator")
       THEN /\ forecast_signals' =
                  simulate_risk(request.tx_type, contract_risk_score, is_scam_linked)
            /\ returned' = returned @@ ("simulate_risk" :> forecast_signals')
            /\ UNCHANGED raised
       ELSE /\ forecast_signals' = [drain_probability |-> 0]
            /\ raised' = raised \cup {"simulate_risk"}
            /\ UNCHANGED returned
    /\ pc' = "phase4"
    /\ UNCHANGED <<clients, request, pending, tx_count, contract_code,
                   recent_transfers, locals, is_contract, contract_verified,
                   verify_calls, onchain_data, transfers_arg, graph_signals,
                   is_scam_linked, is_unverified, contract_risk_score, result>>

\* PHASE 4, lines 159-168
FinalRiskCalculation ==
    /\ pc = "phase4"
    /\ result' = calculate_risk(request.wallet, request.contract, request.tx_type,
                                onchain_data, graph_signals, forecast_signals)
    /\ pc' = "done"
    /\ UNCHANGED <<clients, request, returned, pending, raised, tx_count, contract_code,
                   recent_transfers, locals, is_contract, contract_verified,
                   verify_calls, onchain_data, transfers_arg, graph_signals,
                   is_scam_linked, is_unverified, contract_risk_score,
                   forecast_signals>>

Next ==
    \/ StartFetch
    \/ TxCountTask
    \/ ContractCodeTask
    \/ TransfersTask
    \/ GatherReturn
    \/ CheckVerified
    \/ BuildOnchainData
    \/ GraphAnalysis
    \/ DeriveRiskFactors
    \/ Simulate
    \/ FinalRiskCalculation

Spec == Init /\ [][Next]_vars

-----------------------------------------------------------------------------
(* calculate_risk on its own: every combination of arguments, the dicts    *)
(* left at their defaults included                                         *)

DrainPcts == {0, 1, 49, 50, 57, 79, 80, 85, 100}

OnchainInputs ==
    {<<>>} \cup [tx_count : -1..MaxTxCount,
                 is_contract : BOOLEAN,
                 contract_verified : {"True", "False", "None"}]

GraphInputs == {<<>>} \cup [wallet_scam_distance : -1..MaxHop]

ForecastInputs == {<<>>} \cup [drain_probability : DrainPcts]

InitRisk ==
    /\ pc = "phase4"
    /\ clients = Len(ClientNames)
    /\ request \in [wallet : RawWallets, contract : RawContracts, tx_type : TxTypes]
    /\ onchain_data \in OnchainInputs
    /\ graph_signals \in GraphInputs
    /\ forecast_signals \in ForecastInputs
    /\ pending = {}
    /\ raised = {}
    /\ returned = <<>>
    /\ tx_count = -1
    /\ contract_code = "0x"
    /\ recent_transfers = <<>>
    /\ locals = {}
    /\ is_contract = FALSE
    /\ contract_verified = "None"
    /\ verify_calls = 0
    /\ transfers_arg = <<>>
    /\ is_scam_linked = FALSE
    /\ is_unverified = FALSE
    /\ contract_risk_score = 0
    /\ result = <<>>

NextRisk == FinalRiskCalculation

SpecRisk == InitRisk /\ [][NextRisk]_vars

-----------------------------------------------------------------------------
(* simulate_risk on its own: every transaction type, every                 *)
(* contract_risk_score of 0..MaxContractRiskScore, both flags              *)

InitSim ==
    /\ pc = "simulate"
    /\ clients = Len(ClientNames)
    /\ request \in [wallet : RawWallets, contract : RawContracts, tx_type : TxTypes]
    /\ contract_risk_score \in 0..MaxContractRiskScore
    /\ is_scam_linked \in BOOLEAN
    /\ onchain_data = <<>>
    /\ graph_signals = <<>>
    /\ forecast_signals = <<>>
    /\ pending = {}
    /\ raised = {}
    /\ returned = <<>>
    /\ tx_count = -1
    /\ contract_code = "0x"
    /\ recent_transfers = <<>>
    /\ locals = {}
    /\ is_contract = FALSE
    /\ contract_verified = "None"
    /\ verify_calls = 0
    /\ transfers_arg = <<>>
    /\ is_unverified = FALSE
    /\ result = <<>>

NextSim == Simulate

SpecSim == InitSim /\ [][NextSim]_vars

-----------------------------------------------------------------------------
(* Properties *)

Range(seq) == {seq[i] : i \in 1..Len(seq)}

\* The arguments of the calculate_risk call, as the rules read them
ArgTxCount == Get(onchain_data, "tx_count", -1)
ArgIsContract == Get(onchain_data, "is_contract", FALSE)
ArgVerified == Get(onchain_data, "contract_verified", "None")
ArgHop == Get(graph_signals, "wallet_scam_distance", -1)
ArgDrain == Get(forecast_signals, "drain_probability", 0)
ArgSuspiciousContract ==
    \E pattern \in SuspiciousPatterns : Contains(Lower(request.contract), pattern)
ArgNullLikeWallet == StartsWith(Lower(request.wallet), NullLikePrefix)

\* The contributions of the rules other than the transaction-type rule
FreshWalletPoints == IF ArgTxCount = 0 THEN 30 ELSE IF ArgTxCount \in {1, 2} THEN 15 ELSE 0
UnverifiedPoints == IF ArgIsContract /\ ArgVerified = "False" THEN 35 ELSE 0
ProximityPoints ==
    CASE ArgHop = 0 -> 50
      [] ArgHop = 1 -> 35
      [] ArgHop = 2 -> 20
      [] ArgHop = 3 -> 10
      [] OTHER -> 0
ContractPatternPoints == IF ArgSuspiciousContract THEN 25 ELSE 0
WalletPrefixPoints == IF ArgNullLikeWallet THEN 15 ELSE 0
OtherRulesPoints ==
    FreshWalletPoints + UnverifiedPoints + ProximityPoints
        + ContractPatternPoints + WalletPrefixPoints

C2_SendLikeTransfer ==
    (pc = "phase4" /\ request.tx_type \in {"transfer", "send"}) =>
        forecast_signals =
            IF is_scam_linked
            THEN [drain_probability |-> 95, attack_window_blocks |-> 1]
            ELSE [drain_probability |-> 1, attack_window_blocks |-> 0]

\* What the code does for the two types: the row for transfer, and no row
\* (0.0, 0) for send.
C2_TransferRowOnly ==
    pc = "phase4" =>
        /\ request.tx_type = "transfer" =>
              forecast_signals =
                  IF is_scam_linked
                  THEN [drain_probability |-> 95, attack_window_blocks |-> 1]
                  ELSE [drain_probability |-> 1, attack_window_blocks |-> 0]
        /\ request.tx_type = "send" =>
              forecast_signals = [drain_probability |-> 0, attack_window_blocks |-> 0]

\* C3: the transaction-type rule adds 25 for approve (plus 25 at a drain
\* probability >= 0.8, or 15 at >= 0.5), 10 for swap and 5 for transfer and
\* for send alike, each with a reason.
C3_ClaimedPoints ==
    CASE request.tx_type = "approve" ->
            25 + (IF ArgDrain >= 80 THEN 25 ELSE IF ArgDrain >= 50 THEN 15 ELSE 0)
      [] request.tx_type = "swap" -> 10
      [] request.tx_type \in {"transfer", "send"} -> 5

C3_ClaimedReason ==
    CASE request.tx_type = "approve" -> R_Approve
      [] request.tx_type = "swap" -> R_Swap
      [] request.tx_type \in {"transfer", "send"} -> R_Send

C3_TxTypeContribution ==
    pc = "done" =>
        /\ result.score = Min(100, OtherRulesPoints + C3_ClaimedPoints)
        /\ C3_ClaimedReason \in Range(result.reasons)

\* The same statement for the three types other than transfer.
C3_ExceptTransfer ==
    (pc = "done" /\ request.tx_type # "transfer") =>
        /\ result.score = Min(100, OtherRulesPoints + C3_ClaimedPoints)
        /\ C3_ClaimedReason \in Range(result.reasons)

\* What the code does for transfer: no points and no reason.
C3_TransferAddsNothing ==
    (pc = "done" /\ request.tx_type = "transfer") =>
        /\ result.score = Min(100, OtherRulesPoints)
        /\ R_Send \notin Range(result.reasons)

\* The request of the current state analysed again with the contract's
\* verification status known to be true: the simulator's input without the
\* unverified term, the simulator's answer (or its default when the
\* simulation phase failed), and the aggregator's result.
VerifiedTwinOnchain == [onchain_data EXCEPT !.contract_verified = "True"]
VerifiedTwinRiskScore == IF is_scam_linked THEN 30 ELSE 0
VerifiedTwinForecast ==
    IF "simulate_risk" \in raised
    THEN [drain_probability |-> 0]
    ELSE simulate_risk(request.tx_type, VerifiedTwinRiskScore, is_scam_linked)
VerifiedTwinResult ==
    calculate_risk(request.wallet, request.contract, request.tx_type,
                   VerifiedTwinOnchain, graph_signals, VerifiedTwinForecast)

\* C4: a contract whose verification status is unknown is never treated as
\* unverified: no +35, neither verification reason, no +60 in the
\* contract_risk_score fed to the simulator, and so the same final score as
\* the same request with contract_verified = true.
C4_UnknownNotUnverified ==
    (pc = "done" /\ ArgIsContract /\ ArgVerified = "None") =>
        /\ R_Unverified \notin Range(result.reasons)
        /\ R_Verified \notin Range(result.reasons)
        /\ ~result.signals.is_unverified_contract
        /\ contract_risk_score = VerifiedTwinRiskScore
        /\ result.score = VerifiedTwinResult.score

\* The part of C4 the aggregator keeps: no +35 and neither reason.
C4_AggregatorSkipsUnknown ==
    (pc = "done" /\ ArgIsContract /\ ArgVerified = "None") =>
        /\ R_Unverified \notin Range(result.reasons)
        /\ R_Verified \notin Range(result.reasons)
        /\ ~result.signals.is_unverified_contract
        /\ UnverifiedPoints = 0

\* What the handler does instead: the unknown status counts as unverified in
\* the simulator's input.
C4_UnknownFeedsSixty ==
    (pc = "done" /\ ArgIsContract /\ ArgVerified = "None") =>
        /\ is_unverified
        /\ contract_risk_score = 60 + VerifiedTwinRiskScore

\* C5: a failed transaction-count fetch is carried as the unknown value -1,
\* distinct from 0: neither fresh-wallet rule fires, no reason is added, and
\* the score is that of the same request with a tx_count of 3 or more.
C5_UnknownTxCount ==
    (pc = "done" /\ "wallet_task" \in raised) =>
        /\ onchain_data.tx_count = -1
        /\ R_NewWallet \notin Range(result.reasons)
        /\ R_LowActivity \notin Range(result.reasons)
        /\ ~result.signals.is_new_wallet
        /\ \A n \in 3..MaxTxCount :
              LET known == calculate_risk(
                              request.wallet, request.contract, request.tx_type,
                              [onchain_data EXCEPT !.tx_count = n],
                              graph_signals, forecast_signals)
              IN  /\ result.score = known.score
                  /\ result.reasons = known.reasons

\* The count fetch failed while the other two fetches succeeded, and the other
\* rules still scored.
C5_Witness ==
    /\ pc = "done"
    /\ raised = {"wallet_task"}
    /\ onchain_data.tx_count = -1
    /\ is_contract
    /\ result.score = 45

\* C6: simulate_risk returns (0.70, 1000) for approve unless scam-linked or
\* contract_risk_score > 50, then (0.85, 10); (0.05, 0) for swap unless
\* contract_risk_score > 60, then (0.90, 1), whatever is_scam_linked; both
\* comparisons are strict.
C6_ApproveAndSwapRows ==
    pc = "phase4" =>
        /\ request.tx_type = "approve" =>
              forecast_signals =
                  IF is_scam_linked \/ contract_risk_score > 50
                  THEN [drain_probability |-> 85, attack_window_blocks |-> 10]
                  ELSE [drain_probability |-> 70, attack_window_blocks |-> 1000]
        /\ request.tx_type = "swap" =>
              forecast_signals =
                  IF contract_risk_score > 60
                  THEN [drain_probability |-> 90, attack_window_blocks |-> 1]
                  ELSE [drain_probability |-> 5, attack_window_blocks |-> 0]
        /\ (request.tx_type = "approve" /\ contract_risk_score = 50 /\ ~is_scam_linked)
              => forecast_signals.drain_probability = 70
        /\ (request.tx_type = "swap" /\ contract_risk_score = 60)
              => forecast_signals.drain_probability = 5

\* A scam-linked swap at the threshold itself, answered with the base row.
C6_Witness ==
    /\ pc = "phase4"
    /\ request.tx_type = "swap"
    /\ contract_risk_score = 60
    /\ is_scam_linked
    /\ forecast_signals = [drain_probability |-> 5, attack_window_blocks |-> 0]

\* The transaction-type rule's own contribution, as the aggregator computes it
TxTypePoints == Signal4(NoSignals, request.tx_type, forecast_signals).score

ScenarioCleanAddresses == ~ArgSuspiciousContract /\ ~ArgNullLikeWallet
ScenarioA ==
    /\ onchain_data.tx_count = 0
    /\ onchain_data.is_contract /\ onchain_data.contract_verified = "False"
    /\ graph_signals.wallet_scam_distance = 0
    /\ graph_signals.connected_to_scam_cluster
    /\ request.tx_type = "approve"
    /\ Contains(request.contract, <<"d", "e", "a", "d">>)
    /\ "simulate_risk" \notin raised
ScenarioB ==
    /\ onchain_data.tx_count = 10
    /\ ~onchain_data.is_contract
    /\ graph_signals.wallet_scam_distance = -1
    /\ request.tx_type = "send"
    /\ ScenarioCleanAddresses
ScenarioC ==
    /\ onchain_data.tx_count = 1
    /\ onchain_data.is_contract /\ onchain_data.contract_verified = "True"
    /\ graph_signals.wallet_scam_distance = 2
    /\ request.tx_type = "swap"
    /\ ScenarioCleanAddresses

C8_WitnessB == pc = "done" /\ ScenarioB /\ result.score = 5
C8_WitnessC == pc = "done" /\ ScenarioC /\ result.score = 45

\* Hop distance a is strictly closer to a scam match than b
\* (0 < 1 < 2 < ... < unreachable).
Closer(a, b) == a >= 0 /\ (b = -1 \/ a < b)

ScoreAtHop(h) ==
    calculate_risk(request.wallet, request.contract, request.tx_type,
                   onchain_data, [wallet_scam_distance |-> h],
                   forecast_signals).score

\* C9: of two calls that differ only in hop distance, the one with the
\* smaller hop distance returns a score at least as large, the cap included.
C9_ProximityMonotone ==
    pc = "done" =>
        \A h \in -1..MaxHop : Closer(h, ArgHop) => ScoreAtHop(h) >= result.score

\* A call at three hops, under the cap, that a direct match would take to it.
C9_Witness ==
    /\ pc = "done"
    /\ ArgHop = 3
    /\ result.score < 100
    /\ ScoreAtHop(1) > result.score
    /\ ScoreAtHop(0) = 100

CannedReasons == <<R_AllPassed, R_NoRedFlags>>

RuleReasons ==
    RuleChain(request.wallet, request.contract, request.tx_type,
              onchain_data, graph_signals, forecast_signals).reasons

\* C10: the reasons list is never empty, and the two canned reasons are in it
\* exactly when no rule appended a reason, never beside a rule's reason.
C10_ReasonsNeverEmpty ==
    pc = "done" =>
        /\ Len(result.reasons) > 0
        /\ RuleReasons = <<>> <=> result.reasons = CannedReasons
        /\ RuleReasons = <<>> <=> Range(result.reasons) \cap Range(CannedReasons) # {}
        /\ RuleReasons # <<>> => result.reasons = RuleReasons

\* No rule writes a reason: an unknown-verification contract, a known
\* history, no match, a transfer, clean addresses.
C10_Witness ==
    /\ pc = "done"
    /\ ArgIsContract /\ ArgVerified = "None"
    /\ ArgTxCount >= 3
    /\ request.tx_type = "transfer"
    /\ result.reasons = CannedReasons
    /\ result.score = 0

\* A perfectly clean send to a non-contract address
CleanSend ==
    /\ ArgTxCount >= 3
    /\ ~ArgIsContract
    /\ ArgHop \notin 0..3
    /\ request.tx_type = "send"
    /\ ~ArgSuspiciousContract
    /\ ~ArgNullLikeWallet

Returned(op) == op \in DOMAIN returned

\* The neutral default of a failed graph analysis
GraphDefault == [wallet_scam_distance |-> -1, connected_to_scam_cluster |-> FALSE]

\* The assessment is complete: a score, its verdict, reasons
CompleteAssessment ==
    /\ result.score \in 0..100
    /\ result.risk_score = result.score
    /\ \/ result.risk = "SAFE" /\ result.score \in 0..29
       \/ result.risk = "CAUTION" /\ result.score \in 30..69
       \/ result.risk = "DANGEROUS" /\ result.score \in 70..100
    /\ Len(result.reasons) > 0

\* Before the response is returned the handler always has a next step, no
\* failure leaves it without one, and the aggregator is called with every
\* signal bound.
NeverStuck ==
    /\ pc = "phase1" => ENABLED StartFetch
    /\ pc = "gather" =>
          IF pending = {} THEN ENABLED GatherReturn
          ELSE \A t \in pending :
                  CASE t = "wallet_task" -> ENABLED TxCountTask
                    [] t = "contract_code_task" -> ENABLED ContractCodeTask
                    [] t = "transfers_task" -> ENABLED TransfersTask
    /\ pc = "verify" => ENABLED CheckVerified
    /\ pc = "onchain" => ENABLED BuildOnchainData
    /\ pc = "phase2" => ENABLED GraphAnalysis
    /\ pc = "phase3" => ENABLED DeriveRiskFactors
    /\ pc = "simulate" => ENABLED Simulate
    /\ pc = "phase4" =>
          /\ {"tx_count", "is_contract", "contract_verified"} \subseteq DOMAIN onchain_data
          /\ "wallet_scam_distance" \in DOMAIN graph_signals
          /\ "drain_probability" \in DOMAIN forecast_signals
    /\ pc \in {"phase1", "gather", "verify", "onchain", "phase2", "phase3",
               "simulate", "phase4", "done"}

IssuesLookup == verify_calls' # verify_calls

\* The step invokes the aggregator
InvokesAggregator == pc = "phase4" /\ pc' = "done"

\* The operation has produced a result or its default
Settled(op) == Returned(op) \/ op \in raised

C13_StateOrder ==
    /\ verify_calls \in {0, 1}
    /\ verify_calls > 0 =>
          /\ pending = {}
          /\ {"tx_count", "contract_code", "recent_transfers"} \subseteq locals
          /\ \A t \in Tasks : Settled(t)
          /\ is_contract
          /\ Returned("contract_code_task")
          /\ returned["contract_code_task"] # "0x"
    /\ pc \in {"phase1", "gather"} =>
          verify_calls = 0 /\ ~Settled("check_contract_verified")
    /\ (pc \notin {"phase1", "gather", "verify"} /\ ~is_contract) =>
          /\ verify_calls = 0
          /\ ~Returned("check_contract_verified")
          /\ contract_verified = "None"
          /\ pc # "onchain" => onchain_data.contract_verified = "None"
    /\ pc = "done" =>
          /\ Settled("analyze_wallet_connections")
          /\ Settled("simulate_risk")

\* C13: in every execution the verification lookup is issued only after all
\* three concurrent fetches have completed and bytecode presence is known,
\* and only for a contract; without bytecode (or with a failed bytecode
\* fetch) no lookup is ever issued and contract_verified stays unknown; the
\* aggregator is invoked only after the graph analysis and the simulation
\* have each produced a result or a default.
C13_LookupAndAggregatorOrder ==
    /\ []C13_StateOrder
    /\ [][IssuesLookup =>
            /\ pc = "verify"
            /\ pending = {}
            /\ \A t \in Tasks : Settled(t)
            /\ is_contract
            /\ verify_calls = 0]_vars
    /\ [][InvokesAggregator =>
            /\ Settled("analyze_wallet_connections")
            /\ Settled("simulate_risk")
            /\ "wallet_scam_distance" \in DOMAIN graph_signals
            /\ "drain_probability" \in DOMAIN forecast_signals]_vars

\* A contract whose lookup was issued once, after three successful fetches,
\* and answered "not verified"; the assessment has been returned.
C13_Witness ==
    /\ pc = "done"
    /\ raised = {}
    /\ verify_calls = 1
    /\ is_contract
    /\ onchain_data.contract_verified = "False"

\* A failed bytecode fetch: no lookup, status unknown, assessment returned.
C13_WitnessNoBytecode ==
    /\ pc = "done"
    /\ "contract_code_task" \in raised
    /\ verify_calls = 0
    /\ onchain_data.contract_verified = "None"

DrainReasons ==
    {R_HighDrain(p) : p \in DrainPcts} \cup {R_ModerateDrain(p) : p \in DrainPcts}

\* The place of a reason in the fixed evaluation order: fresh wallet,
\* verification, proximity, transaction type, its drain tier, contract
\* pattern, wallet prefix
ReasonRank(r) ==
    CASE r \in {R_NewWallet, R_LowActivity} -> 1
      [] r \in {R_Unverified, R_Verified, R_RegularWallet} -> 2
      [] r \in {R_Hop0, R_Hop1, R_Hop2, R_Hop3} -> 3
      [] r \in {R_Approve, R_Swap, R_Send} -> 4
      [] r \in DrainReasons -> 5
      [] r = R_ContractPattern -> 6
      [] r = R_WalletPattern -> 7
      [] OTHER -> 0

\* C14: the reasons follow the fixed rule order (fresh wallet, verification,
\* proximity, transaction type with the drain reason of an approve right
\* after it, contract pattern, wallet prefix), each rule gives at most one
\* reason (approve at most two) and no reason string appears twice.
C14_ReasonOrder ==
    pc = "done" =>
        LET rs == result.reasons IN
        /\ \A i, j \in 1..Len(rs) : i < j => rs[i] # rs[j]
        /\ rs # CannedReasons =>
              /\ \A i \in 1..Len(rs) : ReasonRank(rs[i]) >= 1
              /\ \A i, j \in 1..Len(rs) :
                    i < j => ReasonRank(rs[i]) < ReasonRank(rs[j])
              /\ \A i \in 1..Len(rs) :
                    ReasonRank(rs[i]) = 5 =>
                        /\ i > 1
                        /\ rs[i - 1] = R_Approve
                        /\ request.tx_type = "approve"

\* Every rule fires on one call: seven reasons, the approve's two among them.
C14_Witness ==
    /\ pc = "done"
    /\ Len(result.reasons) = 7
    /\ result.reasons[4] = R_Approve
    /\ result.reasons[5] = R_HighDrain(85)
    /\ result.reasons[7] = R_WalletPattern

\* C15: every approve whose simulation phase completes without error gets a
\* drain probability of at least 0.70 and so a score of at least 40, never
\* the SAFE verdict, whatever the on-chain and graph signals; an approve
\* scores below 40 (as low as 25) only when the simulation phase failed and
\* the drain probability was defaulted to 0.0.
C15_ApproveNeverSafe ==
    (pc = "done" /\ request.tx_type = "approve") =>
        /\ Returned("simulate_risk") =>
              /\ forecast_signals.drain_probability >= 70
              /\ result.score >= 40
              /\ result.risk # "SAFE"
        /\ result.score >= 25
        /\ result.score < 40 =>
              /\ "simulate_risk" \in raised
              /\ forecast_signals.drain_probability = 0

\* An approve with nothing else against it and a successful simulation: the
\* lowest score such a request gets.
C15_Witness ==
    /\ pc = "done"
    /\ request.tx_type = "approve"
    /\ Returned("simulate_risk")
    /\ forecast_signals.drain_probability = 70
    /\ result.score = 40
    /\ result.risk = "CAUTION"

\* The same approve with the simulation phase failed: 25 and SAFE.
C15_WitnessSimulationFailed ==
    /\ pc = "done"
    /\ request.tx_type = "approve"
    /\ "simulate_risk" \in raised
    /\ result.score = 25
    /\ result.risk = "SAFE"

====
